---- MODULE Spec2Model ----
(***************************************************************************)
(* The canvas renderer of term-ui (src/src/drawer.js): the log cache, the  *)
(* render window derived from it, the segmentation of an entry into rows   *)
(* of positioned segments (parse), the composition pipeline (render) and   *)
(* the cursor blink.                                                       *)
(*                                                                         *)
(* Lengths are canvas pixels.  A text is a sequence of items: a one-       *)
(* character string is that character; the three markup items below are    *)
(* written out in full and stand for that piece of markup in the string.   *)
(***************************************************************************)
EXTENDS Integers, Sequences, FiniteSets, TLC

VARIABLES
    term,         \* the host terminal: options and the canvas size (never changes)
    isFocus,      \* term.isFocus, owned by the host
    cacheLogs,    \* this.cacheLogs: every row ever parsed (or an undefined element)
    renderLogs,   \* this.renderLogs: the rows drawn by the last composition
    cursor,       \* this.cursor: the blink state
    scrollHeight, \* this.scrollHeight, unset until a composition stores it
    scrollTop,    \* this.scrollTop
    events,       \* what the last operation emitted through term.emit, in order
    drawn,        \* what the last operation drew on the canvas, in order
    lastOp,       \* history: the last operation, its argument and how it ended
    editing,      \* history: the cache as it was when the input now being typed began
    ops,          \* history: number of host calls so far
    stack,        \* calls of the host's scroll handler now in progress (0: the host runs)
    timers,       \* the handles of the timeouts that are pending
    cursorTimer,  \* this.cursorTimer: the handle stored by the blink loop
    tornDown      \* history: the host has cancelled this.cursorTimer

vars == <<term, isFocus, cacheLogs, renderLogs, cursor, scrollHeight, scrollTop,
          events, drawn, lastOp, editing, ops, stack, timers, cursorTimer, tornDown>>

timerVars == <<timers, cursorTimer, tornDown>>

---------------------------------------------------------------------------
(* Bounds of the model *)

MaxOps == 2        \* host calls (emit, clear, renderByTop) in one behaviour
MaxTextLen == 3    \* items of a text in the exhaustive segmentation runs
MaxStack == 3      \* nested handler calls the call stack of the engine has room for

---------------------------------------------------------------------------
(* Values from outside drawer.js *)

INPUT == "input"
OUTPUT == "output"

Script == "<script></script>"
ElemA == "<b color=r>a</b>"
ElemW == "<b background=g>W</b>"

\* JavaScript values the validator tells apart.
Undefined == "undefined"

Min(a, b) == IF a < b THEN a ELSE b
Max(a, b) == IF a > b THEN a ELSE b

\* Math.floor(a / b) and Math.ceil(a / b) for b > 0.
Floor(a, b) == a \div b
Ceil(a, b) == -((-a) \div b)

\* clamp(v, lo, Infinity)
clamp(v, lo) == Max(v, lo)

---------------------------------------------------------------------------
(* Layout, fixed by the constructor *)

pixelRatio == term.options.pixelRatio
canvasHeight == term.canvas.height
canvasWidth == term.canvas.width

\* [45, 15, 15, 15]: top, right, bottom, left, before scaling.
PaddingBox == <<45, 15, 15, 15>>
contentPadding == [i \in 0..3 |-> PaddingBox[i + 1] * pixelRatio]
contentHeight == canvasHeight - contentPadding[0] - contentPadding[2]
contentWidth == canvasWidth - contentPadding[1] - contentPadding[3]
logGap == 10 * pixelRatio
fontSize == term.options.fontSize * pixelRatio
cursorSize == 5 * pixelRatio
cursorGap == pixelRatio * 4
maxLength == Floor(contentHeight, fontSize + logGap)

\* The 'size' event of the constructor.
SizeEvent ==
    [name |-> "size",
     header |-> contentPadding[0] \div pixelRatio,
     content |-> contentHeight \div pixelRatio,
     footer |-> contentPadding[2] \div pixelRatio]

---------------------------------------------------------------------------
(* Text: measuring, escaping, splitting, tokenizing *)

\* Advance of one character in tenths of the font size ("W" is a full-width
\* glyph, every other character a half-width one).
Advance(c) == IF c = "W" THEN 10 ELSE 5

\* ctx.measureText(str).width in the font `${fontSize}px`: advances add up.
RECURSIVE measureText(_)
measureText(str) ==
    IF str = <<>> THEN 0
    ELSE (Advance(Head(str)) * fontSize) \div 10 + measureText(Tail(str))

\* The characters a piece of markup is made of.
Spelling(item) ==
    CASE item = Script ->
           <<"<", "s", "c", "r", "i", "p", "t", ">",
             "<", "/", "s", "c", "r", "i", "p", "t", ">">>
      [] item = ElemA ->
           <<"<", "b", " ", "c", "o", "l", "o", "r", "=", "r", ">", "a",
             "<", "/", "b", ">">>
      [] item = ElemW ->
           <<"<", "b", " ", "b", "a", "c", "k", "g", "r", "o", "u", "n", "d",
             "=", "g", ">", "W", "<", "/", "b", ">">>
      [] OTHER -> <<item>>

\* escape(text): markup characters become entities, so that innerHTML reads the
\* markup back as the plain characters it is spelled with.
RECURSIVE escape(_)
escape(text) ==
    IF text = <<>> THEN <<>> ELSE Spelling(Head(text)) \o escape(Tail(text))

\* text.split(/\r?\n/), scanning from item i with the line `cur` being read.
RECURSIVE SplitFrom(_, _, _, _)
SplitFrom(text, i, cur, acc) ==
    IF i > Len(text) THEN Append(acc, cur)
    ELSE IF text[i] = "\n"
         THEN LET n == Len(cur)
                  line == IF n > 0 /\ cur[n] = "\r" THEN SubSeq(cur, 1, n - 1) ELSE cur
              IN SplitFrom(text, i + 1, <<>>, Append(acc, line))
         ELSE SplitFrom(text, i + 1, Append(cur, text[i]), acc)

split(text) == SplitFrom(text, 1, <<>>, <<>>)

\* line.replace(scriptReg, '')
stripScript(line) == SelectSeq(line, LAMBDA x : x # Script)

Null == "null"

TextNode(run) == [textContent |-> run, color |-> "", background |-> ""]

ElementNode(item) ==
    IF item = ElemA
    THEN [textContent |-> <<"a">>, color |-> "r", background |-> Null]
    ELSE [textContent |-> <<"W">>, color |-> Null, background |-> "g"]

\* $tmp.childNodes after $tmp.innerHTML = line: a run of plain characters is one
\* text node, an element is one node.
RECURSIVE ChildNodesFrom(_, _, _, _)
ChildNodesFrom(line, i, run, acc) ==
    LET flushed == IF run = <<>> THEN acc ELSE Append(acc, TextNode(run))
    IN IF i > Len(line) THEN flushed
       ELSE IF line[i] \in {ElemA, ElemW}
            THEN ChildNodesFrom(line, i + 1, <<>>, Append(flushed, ElementNode(line[i])))
            ELSE ChildNodesFrom(line, i + 1, Append(run, line[i]), acc)

childNodes(line) == ChildNodesFrom(line, 1, <<>>, <<>>)

---------------------------------------------------------------------------
(* parse: one entry to rows of segments *)

\* An element of result / cacheLogs / renderLogs: an array of segments, or the
\* undefined that a hole of the sparse result array turns into.
NoRow == [isArray |-> FALSE, logs |-> <<>>]
Row(logs) == [isArray |-> TRUE, logs |-> logs]

\* result[index] = [log] whatever the row holds already
placeAlone(result, index, log) ==
    [i \in 1..Max(Len(result), index + 1) |->
        IF i = index + 1 THEN Row(<<log>>)
        ELSE IF i <= Len(result) THEN result[i] ELSE NoRow]

\* if (result[index]) result[index].push(log); else result[index] = [log];
\* index counts from 0, and an assignment past the end leaves holes.
place(result, index, log) ==
    IF index < Len(result) /\ result[index + 1].isArray
    THEN [result EXCEPT ![index + 1].logs = Append(@, log)]
    ELSE [i \in 1..Max(Len(result), index + 1) |->
            IF i = index + 1 THEN Row(<<log>>)
            ELSE IF i <= Len(result) THEN result[i] ELSE NoRow]

\* { ...data, width, left, text, color, background }; oid is the identity of the
\* object (no two live segments share one).
Segment(type, text, left, child, oid) ==
    [type |-> type, text |-> text, width |-> measureText(text), left |-> left,
     color |-> child.color, background |-> child.background, oid |-> oid]

\* if (nextWordWidth > this.contentWidth): the word does not fit as a whole
wordOverflows(nextWordWidth) == nextWordWidth > contentWidth

\* the letter test with the canvas width in place of the content width
letterFitsCanvas(nextLetterWidth) == nextLetterWidth < canvasWidth

\* if (nextLetterWidth < this.contentWidth): the letter goes on the current row
letterFits(nextLetterWidth) == nextLetterWidth < contentWidth

\* for (k ...) over the letters of a word that does not fit
RECURSIVE wrapLetters(_, _, _, _, _, _)
wrapLetters(st, letters, k, type, child, lastLeft) ==
    IF k > Len(letters) THEN st
    ELSE LET letter == letters[k]
             letterSize == measureText(<<letter>>)
             nextLetterWidth == st.left + letterSize
         IN IF letterFits(nextLetterWidth)
            THEN wrapLetters([st EXCEPT !.textTmp = Append(@, letter),
                                        !.left = nextLetterWidth],
                             letters, k + 1, type, child, lastLeft)
            ELSE LET log == Segment(type, st.textTmp,
                                    IF st.isNewLine THEN contentPadding[3] ELSE lastLeft,
                                    child, st.oid)
                 IN wrapLetters([st EXCEPT !.result = place(st.result, st.index, log),
                                           !.index = @ + 1,
                                           !.textTmp = <<letter>>,
                                           !.isNewLine = TRUE,
                                           !.left = contentPadding[3] + letterSize,
                                           !.oid = @ + 1],
                                letters, k + 1, type, child, lastLeft)

\* the body of the loop over the child nodes: one word
placeWord(st, type, child) ==
    LET word == child.textContent
        wordSize == measureText(word)
        nextWordWidth == st.left + wordSize
    IN IF wordOverflows(nextWordWidth)
       THEN LET w == wrapLetters([st EXCEPT !.textTmp = <<>>, !.isNewLine = FALSE],
                                 word, 1, type, child, st.left)
                log == Segment(type, w.textTmp, contentPadding[3], child, w.oid)
            IN [w EXCEPT !.result = place(w.result, w.index, log), !.oid = @ + 1]
       ELSE LET log == Segment(type, word, st.left, child, st.oid)
            IN [st EXCEPT !.result = place(st.result, st.index, log),
                          !.left = nextWordWidth,
                          !.oid = @ + 1]

RECURSIVE placeWords(_, _, _, _)
placeWords(st, type, nodes, j) ==
    IF j > Len(nodes) THEN st
    ELSE placeWords(placeWord(st, type, nodes[j]), type, nodes, j + 1)

\* the loop over the raw lines; after each line: index += 1, left = padding
RECURSIVE parseLines(_, _, _, _)
parseLines(st, type, lines, i) ==
    IF i > Len(lines) THEN st
    ELSE LET done == placeWords(st, type, childNodes(stripScript(lines[i])), 1)
         IN parseLines([done EXCEPT !.index = @ + 1, !.left = contentPadding[3]],
                       type, lines, i + 1)

\* data.text as parse rewrites it: prefix + escape(text) for an input entry
parseText(data) ==
    IF data.type = INPUT THEN term.options.prefix \o escape(data.text) ELSE data.text

\* parse(data): the rows of the entry; firstOid is the identity of the first
\* segment object it creates.
parse(data, firstOid) ==
    parseLines([result |-> <<>>, index |-> 0, left |-> contentPadding[3],
                oid |-> firstOid, textTmp |-> <<>>, isNewLine |-> FALSE],
               data.type, split(parseText(data)), 1).result

---------------------------------------------------------------------------
(* The cache, the window and the getters *)

\* Array.prototype.slice(start, end) on a sequence (indices from 0; a negative
\* index counts from the end).
slice(arr, start, end) ==
    LET len == Len(arr)
        from == IF start < 0 THEN Max(len + start, 0) ELSE Min(start, len)
        to == IF end < 0 THEN Max(len + end, 0) ELSE Min(end, len)
    IN IF from < to THEN SubSeq(arr, from + 1, to) ELSE <<>>

\* the last segment of the last row: <<log>>, or <<>> for undefined
lastOf(rows) ==
    IF Len(rows) = 0 THEN <<>>
    ELSE LET logs == rows[Len(rows)]
         IN IF logs.isArray THEN <<logs.logs[Len(logs.logs)]>> ELSE <<>>

lastCacheLog == lastOf(cacheLogs)
lastRenderLog == lastOf(renderLogs)

\* cacheEditable without the test of the entry type
cacheEditableAnyType == isFocus /\ lastCacheLog # <<>>

cacheEditable ==
    isFocus /\ lastCacheLog # <<>> /\ lastCacheLog[1].type = INPUT

\* lastCacheLog === lastRenderLog compares object identities
renderEditable ==
    /\ cacheEditable
    /\ lastRenderLog # <<>>
    /\ lastCacheLog[1].oid = lastRenderLog[1].oid

rowTop(i) == contentPadding[0] + (fontSize + logGap) * i

cursorPos ==
    IF renderEditable
    THEN [left |-> lastRenderLog[1].left + lastRenderLog[1].width + cursorGap,
          top |-> rowTop(Len(renderLogs) - 1)]
    ELSE [left |-> 0, top |-> 0]

---------------------------------------------------------------------------
(* render: background, top bar, content, and the events of renderContent *)

DrawStep(step, row, col) == [step |-> step, row |-> row, col |-> col]

\* the draws of one row (row index i from 0): per segment an optional
\* background rectangle, then the text
RECURSIVE drawLogs(_, _, _)
drawLogs(logs, i, j) ==
    IF j > Len(logs) THEN <<>>
    ELSE (IF logs[j].background \notin {"", Null}
          THEN <<DrawStep("fillRect", i, j - 1)>> ELSE <<>>)
         \o <<DrawStep("fillText", i, j - 1)>>
         \o drawLogs(logs, i, j + 1)

\* the rows renderContent gets through: reading logs.length of an undefined
\* element throws a TypeError, which ends the composition there
RECURSIVE drawRows(_, _)
drawRows(rows, i) ==
    IF i > Len(rows) \/ ~rows[i].isArray THEN <<>>
    ELSE drawLogs(rows[i].logs, i - 1, 1) \o drawRows(rows, i + 1)

renderThrows == \E i \in 1..Len(renderLogs) : ~renderLogs[i].isArray

renderDrawn ==
    <<DrawStep("background", 0, 0), DrawStep("topbar", 0, 0)>> \o drawRows(renderLogs, 1)

\* this.cacheLogs.indexOf(lastlogs), lastlogs the last row of renderLogs
lastIndex ==
    LET lastlogs == renderLogs[Len(renderLogs)]
        same == {i \in 1..Len(cacheLogs) :
                    /\ cacheLogs[i].isArray
                    /\ cacheLogs[i].logs[1].oid = lastlogs.logs[1].oid}
    IN IF same = {} THEN -1 ELSE (CHOOSE i \in same : \A k \in same : i <= k) - 1

\* the values renderContent stores when the last row is editable
newScrollHeight == (Len(cacheLogs) * (fontSize + logGap)) \div pixelRatio
newScrollTop == ((lastIndex + 1) * (fontSize + logGap) - contentHeight) \div pixelRatio

renderEmits == ~renderThrows /\ renderEditable

renderEvents ==
    IF renderEmits
    THEN <<[name |-> "cursor",
            left |-> cursorPos.left \div pixelRatio,
            top |-> cursorPos.top \div pixelRatio],
           [name |-> "scroll",
            scrollHeight |-> clamp(newScrollHeight, 0),
            scrollTop |-> clamp(newScrollTop, 0)]>>
    ELSE <<>>

Unset == [set |-> FALSE, value |-> 0]
Stored(v) == [set |-> TRUE, value |-> v]

\* this.render() on the new cacheLogs and renderLogs: what it draws, emits and
\* stores, and how the calling operation ends
Render(op, data, top) ==
    /\ drawn' = renderDrawn'
    /\ events' = renderEvents'
    /\ scrollHeight' = IF renderEmits' THEN Stored(newScrollHeight') ELSE scrollHeight
    /\ scrollTop' = IF renderEmits' THEN Stored(newScrollTop') ELSE scrollTop
    /\ stack' = IF term.onScroll /\ renderEmits' THEN stack + 1 ELSE 0
    /\ lastOp' = [op |-> op, data |-> data, top |-> top,
                  result |-> IF renderThrows' THEN "TypeError"
                             ELSE IF term.onScroll /\ renderEmits' THEN "inHandler"
                             ELSE "ok"]

---------------------------------------------------------------------------
(* emit, clear, renderByTop, the blink timer *)

\* An entry as the host passes it: text is a string (isString) or something
\* else; replace is absent (Undefined), "true", "false" or some other value.
Entry(type, text, replace) ==
    [type |-> type, isString |-> TRUE, text |-> text, replace |-> replace]

NoData == [type |-> "", isString |-> TRUE, text |-> <<>>, replace |-> Undefined]

\* a validator that does not look at the type
validAnyType(data) ==
    /\ data.isString
    /\ data.replace \in {Undefined, "true", "false"}

\* validator(data, {type: INPUT or OUTPUT, text: 'string', replace: 'undefined|boolean'})
valid(data) ==
    /\ data.type \in {INPUT, OUTPUT}
    /\ data.isString
    /\ data.replace \in {Undefined, "true", "false"}

\* if (data.replace) this.cacheLogs.pop();
popped(cache, data) ==
    IF data.replace = "true" /\ Len(cache) > 0
    THEN SubSeq(cache, 1, Len(cache) - 1)
    ELSE cache

\* an identity no segment of the rows has
freshOid(rows) ==
    LET used == UNION {{rows[i].logs[j].oid : j \in 1..Len(rows[i].logs)} :
                          i \in 1..Len(rows)}
    IN IF used = {} THEN 1 ELSE 1 + CHOOSE m \in used : \A u \in used : u <= m

\* the cache after emit(data): pop on replace, then push(...parse(data))
emitCache(cache, data) ==
    LET kept == popped(cache, data)
    IN kept \o parse(data, freshOid(kept))

\* this.cacheLogs.slice(-this.maxLength)
tailWindow(cache) == slice(cache, -maxLength, Len(cache))

\* this.cacheLogs.slice(startIndex, startIndex + this.maxLength)
startIndexOf(top) == Ceil(top * pixelRatio, fontSize + logGap)
topWindow(cache, top) == slice(cache, startIndexOf(top), startIndexOf(top) + maxLength)

IsPrefix(s, t) == Len(s) <= Len(t) /\ SubSeq(t, 1, Len(s)) = s

NotEditing == [active |-> FALSE, start |-> <<>>]

\* history of the input being typed: it begins with a non-replacing input entry
\* and goes on with each replacing input entry whose text extends the last one
editingAfter(data) ==
    IF data.type # INPUT THEN NotEditing
    ELSE IF data.replace # "true" THEN [active |-> TRUE, start |-> cacheLogs]
    ELSE IF /\ editing.active
            /\ lastOp.op = "emit"
            /\ IsPrefix(lastOp.data.text, data.text)
            /\ lastOp.data.text # data.text
         THEN editing
         ELSE NotEditing

emit(data) ==
    /\ stack = 0
    /\ ops < MaxOps
    /\ ops' = ops + 1
    /\ UNCHANGED <<term, isFocus, cursor, timerVars>>
    /\ IF valid(data)
       THEN /\ cacheLogs' = emitCache(cacheLogs, data)
            /\ renderLogs' = tailWindow(cacheLogs')
            /\ editing' = editingAfter(data)
            /\ Render("emit", data, 0)
       ELSE /\ UNCHANGED <<cacheLogs, renderLogs, scrollHeight, scrollTop, stack>>
            /\ editing' = NotEditing
            /\ drawn' = <<>>
            /\ events' = <<>>
            /\ lastOp' = [op |-> "emit", data |-> data, top |-> 0,
                          result |-> "ValidationError"]

\* a clear that empties the cache and leaves the window as it is
clearCacheOnly ==
    /\ stack = 0
    /\ ops < MaxOps
    /\ ops' = ops + 1
    /\ UNCHANGED <<term, isFocus, cursor, timerVars, renderLogs>>
    /\ cacheLogs' = <<>>
    /\ editing' = NotEditing
    /\ Render("clear", NoData, 0)

clear ==
    /\ stack = 0
    /\ ops < MaxOps
    /\ ops' = ops + 1
    /\ UNCHANGED <<term, isFocus, cursor, timerVars>>
    /\ cacheLogs' = <<>>
    /\ renderLogs' = <<>>
    /\ editing' = NotEditing
    /\ Render("clear", NoData, 0)

renderByTop(top) ==
    /\ stack = 0
    /\ ops < MaxOps
    /\ ops' = ops + 1
    /\ UNCHANGED <<term, isFocus, cursor, cacheLogs, timerVars>>
    /\ renderLogs' = topWindow(cacheLogs, top)
    /\ editing' = NotEditing
    /\ Render("renderByTop", NoData, top)

\* renderCursor(): paints the cursor rectangle, in the colour of the blink state
renderCursor ==
    IF renderEditable /\ cursorPos.left # 0 /\ cursorPos.top # 0
    THEN <<DrawStep(IF cursor THEN "cursorOn" ELSE "cursorOff",
                    Len(renderLogs) - 1, 0)>>
    ELSE <<>>

\* setTimeout returns a handle that no pending timeout has
freshTimer ==
    CHOOSE n \in 1..(Cardinality(timers) + 2) :
        /\ n \notin timers \cup {cursorTimer}
        /\ \A m \in 1..(n - 1) : m \in timers \cup {cursorTimer}

\* a callback that repaints and schedules the next one without the toggle
tickSteady ==
    /\ stack = 0
    /\ \E t \in timers :
          /\ timers' = (timers \ {t}) \cup {freshTimer}
          /\ cursorTimer' = freshTimer
    /\ UNCHANGED <<term, isFocus, cacheLogs, renderLogs, scrollHeight, scrollTop, ops,
                   stack, tornDown, cursor>>
    /\ drawn' = renderCursor'
    /\ events' = <<>>
    /\ editing' = NotEditing
    /\ lastOp' = [op |-> "tick", data |-> NoData, top |-> 0, result |-> "ok"]

\* a callback that schedules the next one without storing its handle
tickKeepsHandle ==
    /\ stack = 0
    /\ \E t \in timers : timers' = (timers \ {t}) \cup {freshTimer}
    /\ cursor' = ~cursor
    /\ UNCHANGED <<term, isFocus, cacheLogs, renderLogs, scrollHeight, scrollTop, ops,
                   stack, tornDown, cursorTimer>>
    /\ drawn' = renderCursor'
    /\ events' = <<>>
    /\ editing' = NotEditing
    /\ lastOp' = [op |-> "tick", data |-> NoData, top |-> 0, result |-> "ok"]

\* the timeout callback: toggle, repaint the cursor, schedule the next one
tick ==
    /\ stack = 0
    /\ \E t \in timers :
          /\ timers' = (timers \ {t}) \cup {freshTimer}
          /\ cursorTimer' = freshTimer
    /\ cursor' = ~cursor
    /\ UNCHANGED <<term, isFocus, cacheLogs, renderLogs, scrollHeight, scrollTop, ops,
                   stack, tornDown>>
    /\ drawn' = renderCursor'
    /\ events' = <<>>
    /\ editing' = NotEditing
    /\ lastOp' = [op |-> "tick", data |-> NoData, top |-> 0, result |-> "ok"]

\* the host gives or takes the input focus (term.isFocus)
setFocus ==
    /\ stack = 0
    /\ isFocus' = ~isFocus
    /\ UNCHANGED <<term, cacheLogs, renderLogs, cursor, scrollHeight, scrollTop, ops,
                   stack, timerVars>>
    /\ drawn' = <<>>
    /\ events' = <<>>
    /\ editing' = NotEditing
    /\ lastOp' = [op |-> "focus", data |-> NoData, top |-> 0, result |-> "ok"]

\* A scroll handler of the host that calls renderByTop with the scrollTop it is
\* given. term.emit runs it inside renderContent, so the call is nested in the
\* operation that emitted the event; when the engine has no room for one more
\* call, the RangeError unwinds the whole chain.
scrollHandler ==
    /\ stack > 0
    /\ UNCHANGED <<term, isFocus, cursor, cacheLogs, ops, timerVars>>
    /\ editing' = NotEditing
    /\ LET top == events[Len(events)].scrollTop
       IN IF stack >= MaxStack
          THEN /\ UNCHANGED <<renderLogs, scrollHeight, scrollTop>>
               /\ drawn' = <<>>
               /\ events' = <<>>
               /\ stack' = 0
               /\ lastOp' = [op |-> "scrollHandler", data |-> NoData, top |-> top,
                             result |-> "RangeError"]
          ELSE /\ renderLogs' = topWindow(cacheLogs, top)
               /\ Render("scrollHandler", NoData, top)

\* the host cancels the stored handle: clearTimeout(drawer.cursorTimer)
teardown ==
    /\ stack = 0
    /\ ~tornDown
    /\ tornDown' = TRUE
    /\ timers' = timers \ {cursorTimer}
    /\ UNCHANGED <<term, isFocus, cacheLogs, renderLogs, cursor, scrollHeight, scrollTop,
                   ops, stack, cursorTimer>>
    /\ drawn' = <<>>
    /\ events' = <<>>
    /\ editing' = NotEditing
    /\ lastOp' = [op |-> "teardown", data |-> NoData, top |-> 0, result |-> "ok"]

---------------------------------------------------------------------------
(* The inputs and the specifications *)

\* [pr, w, h]: pixel ratio and the canvas size in CSS pixels; the canvas itself
\* is w * pr by h * pr. onScroll: the host has registered the scroll handler
\* that calls renderByTop (scrollHandler below).
Layout(pr, w, h) ==
    [options |-> [pixelRatio |-> pr, fontSize |-> 10, prefix |-> <<"$">>],
     canvas |-> [width |-> w * pr, height |-> h * pr],
     onScroll |-> FALSE]

Layouts == {Layout(1, 50, 80), Layout(1, 60, 100), Layout(1, 75, 60), Layout(2, 75, 80)}

Texts ==
    {<<>>, <<"a">>, <<"a", "a">>, <<"a", "a", "a">>, <<"a", "\n">>,
     <<"a", "\n", "\n", "a">>, <<"W">>, <<ElemA, "a">>}

Entries ==
    {Entry(ty, tx, rp) : ty \in {INPUT, OUTPUT}, tx \in Texts, rp \in {Undefined, "true"}}
    \cup {Entry(OUTPUT, <<"a">>, "false"),
          Entry("error", <<"a">>, "true"),
          [type |-> OUTPUT, isString |-> FALSE, text |-> <<>>, replace |-> "true"],
          Entry(INPUT, <<"a">>, "1")}

Tops == {-20, 0, 10, 20, 60}

\* the state the constructor leaves
InitIn(layouts) ==
    /\ term \in layouts
    /\ isFocus \in BOOLEAN
    /\ cacheLogs = <<>>
    /\ renderLogs = <<>>
    /\ cursor = FALSE
    /\ scrollHeight = Unset
    /\ scrollTop = Unset
    /\ events = <<SizeEvent>>
    /\ drawn = <<DrawStep("background", 0, 0), DrawStep("topbar", 0, 0)>>
    /\ lastOp = [op |-> "new", data |-> NoData, top |-> 0, result |-> "ok"]
    /\ editing = NotEditing
    /\ ops = 0
    /\ stack = 0
    /\ timers = {1}
    /\ cursorTimer = 1
    /\ tornDown = FALSE

Init == InitIn(Layouts)

Next ==
    \/ \E data \in Entries : emit(data)
    \/ clear
    \/ \E top \in Tops : renderByTop(top)
    \/ tick
    \/ setFocus

Spec == Init /\ [][Next]_vars

\* The same widget under a host whose scroll handler calls renderByTop.
WithScrollHandler(layout) == [layout EXCEPT !.onScroll = TRUE]

InitReentrant == InitIn({WithScrollHandler(l) : l \in Layouts})

NextReentrant ==
    \/ \E data \in Entries : emit(data)
    \/ clear
    \/ \E top \in Tops : renderByTop(top)
    \/ tick
    \/ setFocus
    \/ scrollHandler

SpecReentrant == InitReentrant /\ [][NextReentrant]_vars

\* The blink loop and its end: the host may cancel the stored handle at any
\* time. A pending timeout fires once the host has returned, so the callback
\* is not put off for ever.
BlinkEntries == {Entry(ty, <<"a">>, Undefined) : ty \in {INPUT, OUTPUT}}

NextBlink ==
    \/ \E data \in BlinkEntries : emit(data)
    \/ clear
    \/ renderByTop(0)
    \/ tick
    \/ setFocus
    \/ teardown

SpecBlink == Init /\ [][NextBlink]_vars /\ WF_vars(tick)

\* Segmentation alone: every text of up to MaxTextLen items, as an input and as
\* an output entry, emitted into the empty cache under every width.
Alphabet == {"a", "W", "\n", "\r", Script, ElemA, ElemW}
AllTexts == UNION {[1..n -> Alphabet] : n \in 0..MaxTextLen}
AllEntries == {Entry(ty, tx, Undefined) : ty \in {INPUT, OUTPUT}, tx \in AllTexts}
ParseLayouts == {Layout(pr, w, 100) : pr \in {1, 2}, w \in {50, 60, 75}}

InitParse == InitIn(ParseLayouts)

NextParse == \E data \in AllEntries : ops = 0 /\ emit(data)

SpecParse == InitParse /\ [][NextParse]_vars

---------------------------------------------------------------------------
(* Properties *)

EmitDone == lastOp.op = "emit" /\ lastOp.result # "ValidationError"
EmitOk == lastOp.op = "emit" /\ lastOp.result = "ok"

\* the last n elements of a sequence
LastN(seq, n) == SubSeq(seq, Len(seq) - n + 1, Len(seq))

\* rows without the identities of their segment objects
Plain(rows) ==
    [i \in 1..Len(rows) |->
        [isArray |-> rows[i].isArray,
         logs |-> [j \in 1..Len(rows[i].logs) |-> [rows[i].logs[j] EXCEPT !.oid = 0]]]]

\* C1: after every successful emit the render window holds exactly the last
\* min(cache length, maxLength) rows of the cache, in cache order, and never more
\* than maxLength rows -- for every maxLength the layout gives, 0 included.
C1_TailWindow ==
    EmitOk =>
        /\ Len(renderLogs) <= maxLength
        /\ renderLogs = LastN(cacheLogs, Min(Len(cacheLogs), maxLength))

\* C2: emitting A and then B with replace:true leaves exactly one row fewer in
\* the cache than emitting A and then B with replace:false, from any cache and
\* for any two valid entries (the state before the step is the one A left).
C2_ReplaceOneFewer ==
    [][(/\ EmitDone
        /\ lastOp'.op = "emit"
        /\ lastOp'.result # "ValidationError"
        /\ lastOp'.data.replace = "true")
       => Len(cacheLogs') =
            Len(emitCache(cacheLogs, [lastOp'.data EXCEPT !.replace = "false"])) - 1]_vars

\* C3: while an input is typed (first version emitted with replace:false, each
\* longer version with replace:true) the cache is the cache the input started
\* from followed by exactly the rows of the latest version.
C3_GrowingInput ==
    (EmitDone /\ editing.active /\ lastOp.data.replace = "true") =>
        Plain(cacheLogs) = Plain(editing.start \o parse(lastOp.data, 1))

\* the characters an entry puts on the canvas: those of the words of all its lines
Range(f) == {f[i] : i \in DOMAIN f}

entryGlyphs(data) ==
    LET lines == split(parseText(data))
    IN UNION {UNION {Range(n.textContent) : n \in Range(childNodes(stripScript(lines[i])))} :
                 i \in 1..Len(lines)}

AllSegmentsFit ==
    \A i \in 1..Len(cacheLogs) : \A j \in 1..Len(cacheLogs[i].logs) :
        cacheLogs[i].logs[j].left + cacheLogs[i].logs[j].width <= contentWidth

\* C4 as stated: when no character of the entry is wider than the content area
\* (contentWidth), every segment has left + width <= contentWidth.
C4_FitsIfNoWiderThanArea ==
    (EmitDone /\ \A g \in entryGlyphs(lastOp.data) : measureText(<<g>>) <= contentWidth)
        => AllSegmentsFit

\* every character of the entry fits on a row of its own, after the left inset
EveryGlyphFitsARow(data) ==
    \A g \in entryGlyphs(data) : contentPadding[3] + measureText(<<g>>) <= contentWidth

\* C4 amended: when every character of the entry fits on an empty row (left inset
\* + its width <= contentWidth), every segment has left + width <= contentWidth.
C4_FitsIfGlyphsFitARow ==
    (EmitDone /\ EveryGlyphFitsARow(lastOp.data)) => AllSegmentsFit

\* a wide character went through the letter-by-letter wrapping and all fits
C4_Witness ==
    /\ EmitDone
    /\ EveryGlyphFitsARow(lastOp.data)
    /\ "W" \in entryGlyphs(lastOp.data)
    /\ Len(cacheLogs) > Len(split(parseText(lastOp.data)))
    /\ \E i \in 1..Len(cacheLogs) : \E j \in 1..Len(cacheLogs[i].logs) :
          /\ cacheLogs[i].logs[j].left > contentPadding[3]
          /\ cacheLogs[i].logs[j].left + cacheLogs[i].logs[j].width = contentWidth

\* C5 (its count): an entry emitted into the empty cache leaves at least one row
\* (an array of segments) per raw line of its text, empty lines included.
C5_RowPerLine ==
    (EmitDone /\ ops = 1 /\ lastOp.data.replace = Undefined) =>
        Cardinality({i \in 1..Len(cacheLogs) : cacheLogs[i].isArray})
            >= Len(split(parseText(lastOp.data)))

\* an entry the validator has to refuse, said without the model's valid
Malformed(data) ==
    \/ data.type # INPUT /\ data.type # OUTPUT
    \/ ~data.isString
    \/ data.replace # Undefined /\ data.replace # "true" /\ data.replace # "false"

\* C6: an emit of a malformed entry ends in a validation error and leaves the
\* cache and the render window as they were, also when it carries replace:true.
C6_RejectedLeavesCache ==
    [][(lastOp'.op = "emit" /\ ops' = ops + 1 /\ Malformed(lastOp'.data))
       => /\ lastOp'.result = "ValidationError"
          /\ cacheLogs' = cacheLogs
          /\ renderLogs' = renderLogs]_vars

\* a malformed entry with replace:true was refused while the cache had rows
C6_Witness ==
    /\ lastOp.op = "emit"
    /\ lastOp.result = "ValidationError"
    /\ lastOp.data.replace = "true"
    /\ Len(cacheLogs) > 0

\* C7 (its window): after renderByTop(top) the window is exactly the cached rows
\* at the indices i with startIndex <= i < startIndex + maxLength that exist
\* (0 <= i < cache length), for startIndex = ceil(top / (line height + gap)).
C7_ScrollWindow ==
    lastOp.op = "renderByTop" =>
        LET startIndex == Ceil(lastOp.top, (fontSize + logGap) \div pixelRatio)
            wanted == {i \in 0..(Len(cacheLogs) - 1) :
                          startIndex <= i /\ i < startIndex + maxLength}
        IN /\ Len(renderLogs) = Cardinality(wanted)
           /\ \A k \in 1..Len(renderLogs) :
                 /\ k - 1 + Max(startIndex, 0) \in wanted
                 /\ renderLogs[k] = cacheLogs[k + Max(startIndex, 0)]

\* C8: no emit of a valid entry, no clear and no renderByTop raises: the
\* composition it triggers can draw every element of the window (stated for the
\* layouts that show at least one row, where the window is a proper one).
C8_NothingThrows == maxLength > 0 => lastOp.result # "TypeError"

CursorPainted ==
    \E i \in 1..Len(drawn) : drawn[i].step \in {"cursorOn", "cursorOff"}

CursorEventAt == {i \in 1..Len(events) : events[i].name = "cursor"}

LastRowFromInput ==
    /\ Len(cacheLogs) > 0
    /\ cacheLogs[Len(cacheLogs)].isArray
    /\ \A j \in 1..Len(cacheLogs[Len(cacheLogs)].logs) :
          cacheLogs[Len(cacheLogs)].logs[j].type = INPUT

LastRowInWindow ==
    \E i \in 1..Len(renderLogs) : renderLogs[i] = cacheLogs[Len(cacheLogs)]

\* C9: a step paints the cursor or emits a cursor event only if the widget has
\* the focus, the last cached row comes from an input entry and that row is in
\* the render window; the event's position is the last segment's left + width +
\* gap, on the row of the last row of the window.
C9_CursorOnlyWhenEligible ==
    /\ (CursorPainted \/ CursorEventAt # {})
          => (isFocus /\ LastRowFromInput /\ LastRowInWindow)
    /\ \A i \in CursorEventAt :
          LET logs == renderLogs[Len(renderLogs)].logs
              seg == logs[Len(logs)]
          IN /\ events[i].left * pixelRatio = seg.left + seg.width + 4 * pixelRatio
             /\ events[i].top * pixelRatio
                   = contentPadding[0] + (fontSize + logGap) * (Len(renderLogs) - 1)

\* a tick painted the cursor of an input row below other rows
C9_Witness ==
    /\ lastOp.op = "tick"
    /\ CursorPainted
    /\ Len(cacheLogs) > 1
    /\ Len(renderLogs) < Len(cacheLogs)

\* C10: right after an emit of an output entry the cursor is not eligible: the
\* emit sent no cursor event and a tick now would paint nothing (stated for the
\* layouts that show at least one row).
C10_NoCursorAfterOutput ==
    (maxLength > 0 /\ EmitDone /\ lastOp.data.type = OUTPUT) =>
        (CursorEventAt = {} /\ ~renderEditable)

ScrollEventAt == {i \in 1..Len(events) : events[i].name = "scroll"}

\* an operation that derived the window anew has returned: a valid emit, a
\* renderByTop or a clear
WindowDerived ==
    /\ lastOp.op \in {"emit", "renderByTop", "clear"}
    /\ lastOp.result = "ok"

\* C11: every operation that derives the window anew (a valid emit of an input
\* or an output entry, renderByTop, clear) emits a scroll event, whether or not
\* the cursor is eligible, and every scroll event carries a scrollHeight and a
\* scrollTop that are not negative.
C11_ScrollEventAlways ==
    /\ WindowDerived => ScrollEventAt # {}
    /\ \A i \in ScrollEventAt :
          events[i].scrollHeight >= 0 /\ events[i].scrollTop >= 0

\* C12: with a scroll handler that calls renderByTop with the reported scrollTop
\* from inside the callback, the chain of nested compositions is finite and the
\* emit or renderByTop that started it returns: no operation ends by exhausting
\* the call stack.
C12_HandlerChainEnds == lastOp.result # "RangeError"

\* a nested call that is given the scrollTop T emits a scroll event with that
\* same scrollTop T over the same window, so the next nested call repeats it
HandlerRepeats ==
    (stack > 1 /\ lastOp.op = "scrollHandler") =>
        /\ events[Len(events)].scrollTop = lastOp.top
        /\ renderLogs = topWindow(cacheLogs, lastOp.top)

\* C13: clear() leaves the cache and the window both empty from any state and
\* makes the cursor ineligible (no cursor event, nothing for the blink to
\* paint); a clear right after a clear leaves the same cache and window and
\* emits the same events as the first one.
C13_ClearEmptiesIdempotent ==
    [][(lastOp'.op = "clear" /\ ops' = ops + 1)
       => /\ cacheLogs' = <<>>
          /\ renderLogs' = <<>>
          /\ lastOp'.result = "ok"
          /\ ~renderEditable'
          /\ CursorEventAt' = {}
          /\ renderCursor' = <<>>
          /\ lastOp.op = "clear" =>
                (cacheLogs' = cacheLogs /\ renderLogs' = renderLogs /\ events' = events)]_vars

\* a clear of a widget that had drawn an editable window
C13_Witness ==
    /\ lastOp.op = "clear"
    /\ scrollHeight.set
    /\ isFocus
    /\ cacheLogs = <<>>
    /\ renderLogs = <<>>

\* C14: every scroll event reports the view just drawn: scrollHeight is the
\* number of cached rows times the row height (line height plus gap) in host
\* units, and renderByTop(reported scrollTop) derives exactly the window drawn
\* when the event was emitted, after an emit as well as after a renderByTop
\* whose window ends at the last cached row with fewer than maxLength rows.
C14_ScrollEventReportsView ==
    maxLength > 0 =>
        \A i \in ScrollEventAt :
            /\ events[i].scrollHeight
                  = Len(cacheLogs) * ((fontSize + logGap) \div pixelRatio)
            /\ topWindow(cacheLogs, events[i].scrollTop) = renderLogs

\* C15: no segment that the segmentation produces has an empty text, also when
\* the first character of a word that does not fit does not fit in the rest of
\* the current row, or when a single character is wider than the content area.
C15_NoEmptySegment ==
    EmitDone =>
        \A i \in 1..Len(cacheLogs) :
            cacheLogs[i].isArray =>
                \A j \in 1..Len(cacheLogs[i].logs) : cacheLogs[i].logs[j].text # <<>>

\* the number of characters of a row (0 for an undefined element)
RECURSIVE charsOf(_)
charsOf(logs) ==
    IF logs = <<>> THEN 0 ELSE Len(logs[1].text) + charsOf(Tail(logs))

\* C16: an output entry that is one word of n equal characters of width w, on
\* a content width that takes exactly c >= 1 of them after the left inset
\* (inset + c * w <= contentWidth < inset + (c + 1) * w, the exact fit
\* included), with n > c, is cut into ceil(n / c) rows, and every row but the
\* last holds exactly c characters.
C16_GreedyColumns ==
    \A g \in {"a", "W"} :
        LET w == measureText(<<g>>)
            c == (contentWidth - contentPadding[3]) \div w
            n == Len(lastOp.data.text)
        IN (/\ EmitDone
            /\ lastOp.data.type = OUTPUT
            /\ \A k \in 1..n : lastOp.data.text[k] = g
            /\ c >= 1
            /\ n > c)
           => /\ Len(cacheLogs) = Ceil(n, c)
              /\ \A i \in 1..(Len(cacheLogs) - 1) : charsOf(cacheLogs[i].logs) = c

\* the texts of the segments of the rows, one after the other
RECURSIVE textOfLogs(_)
textOfLogs(logs) ==
    IF logs = <<>> THEN <<>> ELSE logs[1].text \o textOfLogs(Tail(logs))

RECURSIVE textOfRows(_)
textOfRows(rows) ==
    IF rows = <<>> THEN <<>> ELSE textOfLogs(rows[1].logs) \o textOfRows(Tail(rows))

\* the words of a line, and of all the lines of an entry, one after the other
RECURSIVE wordsOfNodes(_)
wordsOfNodes(nodes) ==
    IF nodes = <<>> THEN <<>> ELSE nodes[1].textContent \o wordsOfNodes(Tail(nodes))

RECURSIVE wordsOfLines(_)
wordsOfLines(lines) ==
    IF lines = <<>> THEN <<>>
    ELSE wordsOfNodes(childNodes(stripScript(lines[1]))) \o wordsOfLines(Tail(lines))

\* C17: segmentation loses nothing and keeps the order: the texts of the
\* segments of an entry, concatenated in output order, are the words of all its
\* raw lines concatenated in input order.
C17_Lossless ==
    (EmitDone /\ ops = 1) =>
        textOfRows(cacheLogs) = wordsOfLines(split(parseText(lastOp.data)))

\* an entry with two words on one row, one of them cut over several rows
C17_Witness ==
    /\ EmitDone
    /\ ops = 1
    /\ Len(cacheLogs) > Len(split(parseText(lastOp.data)))
    /\ \E i \in 1..Len(cacheLogs) : Len(cacheLogs[i].logs) > 1
    /\ textOfRows(cacheLogs) # <<>>

\* C18: the blink state starts off and only a tick changes it, each tick
\* flipping it; emit, clear and renderByTop leave it as it is. A tick does
\* nothing but repaint the cursor: the cache and the window stay as they are
\* and no size, scroll or cursor event is emitted.
C18_BlinkOnlyByTicks ==
    /\ cursor = FALSE
    /\ [][/\ lastOp'.op = "tick" =>
                /\ cursor' = ~cursor
                /\ cacheLogs' = cacheLogs
                /\ renderLogs' = renderLogs
                /\ events' = <<>>
                /\ \A i \in 1..Len(drawn') : drawn'[i].step \in {"cursorOn", "cursorOff"}
          /\ lastOp'.op # "tick" => cursor' = cursor]_vars

\* a tick that switched the blink on and painted the cursor of a cached input
C18_Witness ==
    /\ lastOp.op = "tick"
    /\ cursor
    /\ CursorPainted
    /\ ops > 0
    /\ LastRowFromInput

TextStepAt == {i \in 1..Len(drawn) : drawn[i].step = "fillText"}

\* all the segments of the rows, in row order
RECURSIVE segmentsOf(_)
segmentsOf(rows) ==
    IF rows = <<>> THEN <<>> ELSE rows[1].logs \o segmentsOf(Tail(rows))

\* C19: every full composition draws in a fixed order: the background, the top
\* bar, the segments of the window in window order (each after its own
\* background rectangle, if it has one) and, when the cursor is eligible, the
\* cursor rectangle after the content, within that same composition.
C19_DrawOrder ==
    (maxLength > 0 /\ (WindowDerived \/ lastOp.op = "new")) =>
        /\ Len(drawn) >= 2
        /\ drawn[1].step = "background"
        /\ drawn[2].step = "topbar"
        /\ \A i \in 3..Len(drawn) : drawn[i].step \notin {"background", "topbar"}
        /\ Cardinality(TextStepAt) = Len(segmentsOf(renderLogs))
        /\ \A i, j \in TextStepAt :
              i < j => \/ drawn[i].row < drawn[j].row
                       \/ drawn[i].row = drawn[j].row /\ drawn[i].col < drawn[j].col
        /\ \A i \in 1..Len(drawn) :
              drawn[i].step = "fillRect" =>
                  /\ i < Len(drawn)
                  /\ drawn[i + 1] = DrawStep("fillText", drawn[i].row, drawn[i].col)
        /\ renderEditable =>
              /\ drawn[Len(drawn)].step \in {"cursorOn", "cursorOff"}
              /\ \A i \in TextStepAt : i < Len(drawn)

\* C20: at every moment at most one blink timeout is pending and, whenever the
\* host runs, this.cursorTimer is the handle of that pending timeout; so once
\* the host has cancelled the stored handle no timeout is pending, and no
\* further toggle or cursor repaint happens; as long as the handle is not
\* cancelled the ticks go on for ever.
C20_OneTimer ==
    /\ [](/\ Cardinality(timers) <= 1
          /\ (stack = 0 /\ ~tornDown) => timers = {cursorTimer}
          /\ tornDown => timers = {})
    /\ [][tornDown => (cursor' = cursor /\ lastOp'.op # "tick" /\ ~CursorPainted')]_vars
    /\ ([]~tornDown) => ([]<>cursor /\ []<>~cursor)

\* the host cancelled the handle after an odd number of ticks and went on
C20_Witness ==
    /\ tornDown
    /\ cursor
    /\ timers = {}
    /\ lastOp.op = "emit"
    /\ LastRowFromInput
    /\ isFocus

====
